---- MODULE Spec2Model ----
(***************************************************************************)
(* Real-time messaging core of the backend: the socket gateway             *)
(* (services/socketService.js), the REST chat controller                   *)
(* (controllers/chatController.js) and the Conversation store              *)
(* (models/conversation_model.js).                                         *)
(*                                                                         *)
(* Every handler is an async function; Node runs the code between two      *)
(* awaits without interruption and a store call takes effect at one point  *)
(* in time.  A unit of work is therefore a task whose pc names the store   *)
(* call it is waiting for; one step of a task is that store call taking    *)
(* effect together with the JavaScript that follows it up to the next      *)
(* await.  Tasks of different events interleave freely.                    *)
(***************************************************************************)
EXTENDS Integers, Sequences, FiniteSets, TLC

\* ---------------------------------------------------------------- bounds
MaxTasks == 2          \* units of work started in one behaviour
MaxSeed == 3           \* messages already delivered in a seeded store

\* ------------------------------------------------------------ identities
UserStore == {"u1", "u2"}            \* documents of the User collection
AdminStore == {"a1"}                 \* documents of the Admin collection
GhostId == "g0"                      \* a well-formed id no store holds
Conns == {1, 2}                      \* socket ids
PresenceConns == {1, 2, 3, 4, 5, 6}  \* socket ids of the presence scenarios

\* socket.handshake.auth.token: absent, one jwt.verify throws on, or one it
\* decodes
Handshake(c) == IF c = 4 THEN "none" ELSE IF c = 5 THEN "invalid" ELSE "valid"

\* the identity the token of a connection decodes to (jwt.verify): sockets
\* 1 and 3 belong to the same user, socket 6 to a user since deleted
Token(c) == IF c \in {1, 3} THEN [id |-> "u1", role |-> "user"]
            ELSE IF c = 6 THEN [id |-> GhostId, role |-> "user"]
            ELSE [id |-> "a1", role |-> "admin"]

U1 == [id |-> "u1", role |-> "user"]
U2 == [id |-> "u2", role |-> "user"]

\* ---------------------------------------------------------------- inputs
\* send_message payloads, per socket: an existing receiver, an id no store
\* holds, and a receiverModel outside the enum
SocketSends == {<<1, [id |-> "a1", model |-> "Admin"]>>,
                <<1, [id |-> GhostId, model |-> "User"]>>,
                <<1, [id |-> "u2", model |-> "Other"]>>,
                <<2, [id |-> "u1", model |-> "User"]>>}
\* POST /messages bodies, per authenticated caller
RestSends == {<<U1, [id |-> "a1", model |-> "Admin"]>>}
\* POST /conversations and GET /conversations/user/:userId
RestStarts == {<<"startConversation", U1, [id |-> "a1", model |-> "Admin"]>>,
               <<"getOrCreateConversation", U1, [id |-> "a1", model |-> "Admin"]>>}
\* mark_messages_read payloads: conversationId and messageIds (none, one,
\* all of the seeded messages)
ReadConversations == {1}
ReadIdSets == {{}, {1}, 1..MaxSeed}
\* conversation ids of join_conversation, leave_conversation and typing
PresenceRooms == {1}
\* POST /messages bodies of callers that take turns: both directions of one
\* pair, a second pair, and a caller writing to itself
PairSends == {<<U1, [id |-> "u2", model |-> "User"]>>,
              <<U2, [id |-> "u1", model |-> "User"]>>,
              <<U2, [id |-> "a1", model |-> "Admin"]>>,
              <<U1, [id |-> "u1", model |-> "User"]>>}
\* ?page=&limit= of GET /conversations/:conversationId/messages
Pages == 1..MaxSeed
Limits == {1, 2}
\* callers of GET /conversations/:conversationId/messages
FetchCallers == {U1, U2, [id |-> "a1", role |-> "admin"]}
\* send_message payloads that every socket sends alike: one with the
\* fields the handler reads, one that also names another participant as
\* its sender
IdentitySends == {[id |-> "u2", model |-> "User"],
                  [id |-> "u2", model |-> "User",
                   sender |-> [id |-> "u2", role |-> "user"]]}
\* send_message events of both sockets: socket 1 names an id no store holds,
\* socket 2 an existing user
CompletingSends ==
  {<<1, [id |-> GhostId, model |-> "User"]>>,
   <<2, [id |-> "u1", model |-> "User"]>>}
\* what u1 sends once over the socket and once over POST /messages: to an
\* admin, to an id no store holds, to u2, and to u2 with a variant outside
\* the enum
EqualSends == {[id |-> "a1", model |-> "Admin"],
               [id |-> GhostId, model |-> "User"],
               [id |-> "u2", model |-> "User"],
               [id |-> "u2", model |-> "Other"]}
\* sends that run while messages are being read
ReadSends == {<<U2, [id |-> "u1", model |-> "User"]>>}

VARIABLES
  sockets,        \* socket id -> [state, userId, userRole, joined, inbox];
                  \* inbox: what the latest presence or typing emit
                  \* delivered to the socket
  connectedUsers, \* this.connectedUsers: userId -> socket id (0 = no entry)
  userSockets,    \* this.userSockets: socket id -> userId ("" = no entry)
  conversations,  \* Conversation collection, _id = position
  messages,       \* Message collection, _id = position
  tasks,          \* units of work, in the order they started
  status,         \* userId -> the last user_status_change broadcast for it
  clock           \* the value the next new Date() returns

vars == <<sockets, connectedUsers, userSockets, conversations, messages,
          tasks, status, clock>>

AllIds == UserStore \cup AdminStore \cup {GhostId}

\* ------------------------------------------------------ pure helpers
\* senderRole === "admin" ? "Admin" : "User"
ModelOf(role) == IF role = "admin" THEN "Admin" ELSE "User"

\* faulty variant: the lookup result is never checked
FindByIdUnchecked(model, id) == TRUE

\* receiverModel === "Admin" ? Admin : User, then findById
FindById(model, id) ==
  IF model = "Admin" THEN id \in AdminStore ELSE id \in UserStore

\* the enum validator of participants.userModel
ValidUserModel(m) == m \in {"User", "Admin"}

\* faulty variant: a participant starts with one unread message
ParticipantUnread(id, model, t) ==
  [user |-> id, userModel |-> model, lastSeen |-> t, unreadCount |-> 1]

\* one participants entry with the schema defaults
Participant(id, model, t) ==
  [user |-> id, userModel |-> model, lastSeen |-> t, unreadCount |-> 0]

\* new Conversation({participants: [a, b]}) with the schema defaults
NewConversation(id1, m1, id2, m2, t) ==
  [participants |-> <<Participant(id1, m1, t), Participant(id2, m2, t)>>,
   lastMessage |-> 0, lastActivity |-> t, isActive |-> TRUE]

NoDoc == [participants |-> <<>>, lastMessage |-> 0, lastActivity |-> 0,
          isActive |-> FALSE]

\* faulty variant: the first entry must be user1 and the second user2
MatchesBetweenOrdered(c, id1, m1, id2, m2) ==
  /\ Len(c.participants) = 2
  /\ c.participants[1].user = id1 /\ c.participants[1].userModel = m1
  /\ c.participants[2].user = id2 /\ c.participants[2].userModel = m2

\* the query of findBetweenUsers: each of the four conditions is satisfied
\* by some element of the participants array (dotted paths, no $elemMatch)
MatchesBetween(c, id1, m1, id2, m2) ==
  /\ \E i \in DOMAIN c.participants : c.participants[i].user = id1
  /\ \E i \in DOMAIN c.participants : c.participants[i].userModel = m1
  /\ \E i \in DOMAIN c.participants : c.participants[i].user = id2
  /\ \E i \in DOMAIN c.participants : c.participants[i].userModel = m2

\* findOne: the first matching document in insertion order, 0 for null
FirstMatch(S) == IF S = {} THEN 0 ELSE CHOOSE i \in S : \A j \in S : i <= j

\* faulty variant: the first conversation user1 opened, whoever the other is
findBetweenUsersFirst(convs, id1, m1, id2, m2) ==
  FirstMatch({i \in DOMAIN convs : /\ convs[i].participants[1].user = id1
                                   /\ MatchesBetween(convs[i], id1, m1, id2, m2)})

findBetweenUsers(convs, id1, m1, id2, m2) ==
  FirstMatch({i \in DOMAIN convs : MatchesBetween(convs[i], id1, m1, id2, m2)})

\* participants.find((p) => p.user.toString() === id.toString()): index or 0
FindParticipant(doc, id) ==
  FirstMatch({i \in DOMAIN doc.participants : doc.participants[i].user = id})

\* the fields the Message schema fills in: unread, not deleted, createdAt
MessageDefaults(t) ==
  [isRead |-> FALSE, readAt |-> 0, isDeleted |-> FALSE, createdAt |-> t]

\* new Message({sender, senderModel, receiver, receiverModel, ...})
NewMessage(sid, smodel, rid, rmodel, t) ==
  [sender |-> sid, senderModel |-> smodel, receiver |-> rid,
   receiverModel |-> rmodel] @@ MessageDefaults(t)

\* an emit: the event, the room it goes to (conversation_<k>, user_<id> or
\* the socket itself) and the payload's message id or message ids
ToConversation(name, k, m, ids) ==
  [ev |-> name, room |-> "conversation", conv |-> k, user |-> "", socket |-> 0,
   msg |-> m, ids |-> ids]
ToUser(name, id, m) ==
  [ev |-> name, room |-> "user", conv |-> 0, user |-> id, socket |-> 0,
   msg |-> m, ids |-> {}]
ToSocket(name, c, m) ==
  [ev |-> name, room |-> "socket", conv |-> 0, user |-> "", socket |-> c,
   msg |-> m, ids |-> {}]

\* ------------------------------------------------------------- tasks
\* kind, conn, userId, userRole: the handler and who runs it (conn 0: REST);
\* receiverId .. messageIds: the payload; pc: the store call awaited;
\* conv, doc, msg, at: the handler's locals (conversation _id and loaded
\* document, message _id, the readAt it computed); emitted: its emits;
\* created, saved, moved, afterError, outcome: history of what it did
NewTask(kind, c, who, rid, rmodel, pc) ==
  [kind |-> kind, conn |-> c, userId |-> who.id, userRole |-> who.role,
   receiverId |-> rid, receiverModel |-> rmodel,
   conversationId |-> 0, messageIds |-> {}, page |-> 1, limit |-> 50,
   listed |-> <<>>,
   pc |-> pc, conv |-> 0, doc |-> NoDoc, msg |-> 0, at |-> 0,
   created |-> 0, saved |-> FALSE, moved |-> {},
   afterError |-> c # 0 /\ \E j \in DOMAIN tasks :
                    tasks[j].conn = c /\ tasks[j].outcome = "error",
   emitted |-> <<>>, outcome |-> "pending"]

\* faulty variant: only the socket handler persists a message
IsSendSocketOnly(t) == t.kind = "socketSend"
\* a send, over the socket or over POST /messages
IsSend(t) == t.kind \in {"socketSend", "restSend"}

\* faulty variant: the error goes to the conversation room instead of the socket
CaughtBroadcast(t) ==
  [t EXCEPT !.pc = "done", !.outcome = "error", !.doc = NoDoc,
            !.emitted = Append(t.emitted,
                               ToConversation("message_error", t.conv, 0, {}))]

\* the catch block of the handler the task belongs to
\* socket send_message: socket.emit("message_error"); REST: next(error)
Caught(t) ==
  [t EXCEPT !.pc = "done", !.outcome = "error", !.doc = NoDoc,
            !.emitted = IF t.kind = "socketSend"
                        THEN Append(t.emitted,
                                    ToSocket("message_error", t.conn, 0))
                        ELSE t.emitted]

\* a socket that has not passed the middleware yet
Connecting == [state |-> "connecting", userId |-> "", userRole |-> "",
               joined |-> {}, inbox |-> <<>>]

Init ==
  /\ sockets = [c \in Conns |-> Connecting]
  /\ connectedUsers = [u \in AllIds |-> 0]
  /\ userSockets = [c \in Conns |-> ""]
  /\ conversations = <<>>
  /\ messages = <<>>
  /\ tasks = <<>>
  /\ status = [u \in AllIds |-> "none"]
  /\ clock = 1

\* --------------------------------------------------- connection lifecycle
\* socket.userId, socket.userRole as the middleware sets them
Connected(c) == [state |-> "authenticated", userId |-> Token(c).id,
                 userRole |-> Token(c).role, joined |-> {}, inbox |-> <<>>]

\* an event as a client receives it: the name, the userId of the payload
\* and its status or conversationId
StatusChange(id, st) ==
  [ev |-> "user_status_change", userId |-> id, status |-> st, conv |-> 0]
Typing(name, id, k) == [ev |-> name, userId |-> id, status |-> "", conv |-> k]

\* an emit reaches the sockets it is addressed to and no other
Deliver(socks, to, e) ==
  [d \in DOMAIN socks |->
     [socks[d] EXCEPT !.inbox = IF d \in to THEN <<e>> ELSE <<>>]]

\* this.io.emit: every connected socket receives the event
Broadcast(socks, e) ==
  Deliver(socks, {d \in DOMAIN socks : socks[d].state = "authenticated"}, e)

\* faulty variant: any token that is present is accepted
AuthenticatesAnyToken(c) == Handshake(c) # "none"

\* the io.use middleware calls next() without an error: a token is present,
\* jwt.verify decodes it and findById returns a document
Authenticates(c) ==
  /\ Handshake(c) = "valid"
  /\ FindById(ModelOf(Token(c).role), Token(c).id)

\* io.use middleware and the "connection" handler
Connect(c) ==
  /\ sockets[c].state = "connecting"
  /\ Authenticates(c)
  /\ sockets' = Broadcast([sockets EXCEPT ![c] = Connected(c)],
                          StatusChange(Token(c).id, "online"))
  /\ connectedUsers' = [connectedUsers EXCEPT ![Token(c).id] = c]
  /\ userSockets' = [userSockets EXCEPT ![c] = Token(c).id]
  /\ status' = [status EXCEPT ![Token(c).id] = "online"]
  /\ UNCHANGED <<conversations, messages, tasks, clock>>

\* the middleware calls next(new Error(...)): the connection handler never
\* runs and the socket is closed
Reject(c) ==
  /\ sockets[c].state = "connecting"
  /\ ~Authenticates(c)
  /\ sockets' = [sockets EXCEPT ![c].state = "rejected"]
  /\ UNCHANGED <<connectedUsers, userSockets, conversations, messages, tasks,
                 status, clock>>

\* faulty variant: the userId -> socket id entry is kept
UnregisterKeep(cu, id) == cu

\* this.connectedUsers.delete(socket.userId)
Unregister(cu, id) == [cu EXCEPT ![id] = 0]

\* isUserOnline: this.connectedUsers.has(userId)
isUserOnline(cu, id) == cu[id] # 0

\* getOnlineUsers: the keys of this.connectedUsers
getOnlineUsers(cu) == {id \in DOMAIN cu : cu[id] # 0}

\* socket.on("disconnect"): the socket has left its rooms and is no longer
\* connected when the handler deletes both entries and broadcasts offline
Disconnect(c) ==
  /\ sockets[c].state = "authenticated"
  /\ sockets' = Broadcast([sockets EXCEPT ![c].state = "disconnected",
                                          ![c].joined = {}],
                          StatusChange(sockets[c].userId, "offline"))
  /\ connectedUsers' = Unregister(connectedUsers, sockets[c].userId)
  /\ userSockets' = [userSockets EXCEPT ![c] = ""]
  /\ status' = [status EXCEPT ![sockets[c].userId] = "offline"]
  /\ UNCHANGED <<conversations, messages, tasks, clock>>

\* the two registration statements of the connection handler, run once
\* more for a socket that is connected: connectedUsers.set, userSockets.set
RegisterAgain(c) ==
  /\ sockets[c].state = "authenticated"
  /\ connectedUsers' = [connectedUsers EXCEPT ![sockets[c].userId] = c]
  /\ userSockets' = [userSockets EXCEPT ![c] = sockets[c].userId]
  /\ UNCHANGED <<sockets, conversations, messages, tasks, status, clock>>

\* the two removal statements of the disconnect handler, run once more for
\* a socket that has disconnected: connectedUsers.delete(socket.userId),
\* userSockets.delete(socket.id)
UnregisterAgain(c) ==
  /\ sockets[c].state = "disconnected"
  /\ connectedUsers' = Unregister(connectedUsers, sockets[c].userId)
  /\ userSockets' = [userSockets EXCEPT ![c] = ""]
  /\ UNCHANGED <<sockets, conversations, messages, tasks, status, clock>>

\* socket.on("join_conversation"): socket.join of the room, whatever the id
JoinConversation(c, k) ==
  /\ sockets[c].state = "authenticated"
  /\ k \notin sockets[c].joined
  /\ sockets' = [sockets EXCEPT ![c].joined = @ \cup {k}]
  /\ UNCHANGED <<connectedUsers, userSockets, conversations, messages, tasks,
                 status, clock>>

\* socket.on("leave_conversation")
LeaveConversation(c, k) ==
  /\ sockets[c].state = "authenticated"
  /\ k \in sockets[c].joined
  /\ sockets' = [sockets EXCEPT ![c].joined = @ \ {k}]
  /\ UNCHANGED <<connectedUsers, userSockets, conversations, messages, tasks,
                 status, clock>>

\* faulty variant: this.io.to(room), the sender's socket included
ToRoomAll(socks, c, k, e) ==
  Deliver(socks, {d \in DOMAIN socks : /\ socks[d].state = "authenticated"
                                       /\ k \in socks[d].joined}, e)

\* socket.to(room).emit: every socket of the room but the sender's
ToRoom(socks, c, k, e) ==
  Deliver(socks, {d \in DOMAIN socks : /\ d # c
                                       /\ socks[d].state = "authenticated"
                                       /\ k \in socks[d].joined}, e)

\* socket.on("typing_start") and socket.on("typing_stop")
TypingEvents == {<<"typing_start", "user_typing">>,
                 <<"typing_stop", "user_stopped_typing">>}

TypingEvent(c, k, ev) ==
  /\ sockets[c].state = "authenticated"
  /\ sockets' = ToRoom(sockets, c, k, Typing(ev[2], sockets[c].userId, k))
  /\ UNCHANGED <<connectedUsers, userSockets, conversations, messages, tasks,
                 status, clock>>

\* ------------------------------------------------------------- send
\* faulty variant: a sender named in the payload is believed
SenderOfPayload(sock, r) ==
  IF "sender" \in DOMAIN r THEN r.sender
  ELSE [id |-> sock.userId, role |-> sock.userRole]

\* senderId = socket.userId, senderRole = socket.userRole: the payload's
\* other fields are not read
SenderOf(sock, r) == [id |-> sock.userId, role |-> sock.userRole]

\* socket.on("send_message") up to the first await of handleSendMessage
SendMessage(c, r) ==
  /\ sockets[c].state = "authenticated"
  /\ Len(tasks) < MaxTasks
  /\ tasks' = Append(tasks,
        NewTask("socketSend", c, SenderOf(sockets[c], r),
                r.id, r.model, "findReceiver"))
  /\ UNCHANGED <<sockets, connectedUsers, userSockets, conversations, messages,
                 status, clock>>

\* send_message without a payload: the destructuring of data throws
SendMalformed(c) ==
  /\ sockets[c].state = "authenticated"
  /\ Len(tasks) < MaxTasks
  /\ tasks' = Append(tasks,
        Caught(NewTask("socketSend", c,
                       [id |-> sockets[c].userId, role |-> sockets[c].userRole],
                       "", "", "start")))
  /\ UNCHANGED <<sockets, connectedUsers, userSockets, conversations, messages,
                 status, clock>>

\* POST /messages (sendMessage) up to its first await
RestSendMessage(who, r) ==
  /\ Len(tasks) < MaxTasks
  /\ tasks' = Append(tasks,
        NewTask("restSend", 0, who, r.id, r.model, "findReceiver"))
  /\ UNCHANGED <<sockets, connectedUsers, userSockets, conversations, messages,
                 status, clock>>

\* where a task goes once it holds its conversation
AfterConversation(t) == IF IsSend(t) THEN "saveMessage" ELSE "populate"

\* await ReceiverModel.findById(receiverId); if (!receiver) throw
StepFindReceiver(i) ==
  /\ tasks[i].pc = "findReceiver"
  /\ tasks' = [tasks EXCEPT ![i] =
        IF FindById(@.receiverModel, @.receiverId)
        THEN [@ EXCEPT !.pc = "findConversation"]
        ELSE Caught(@)]
  /\ UNCHANGED <<sockets, connectedUsers, userSockets, conversations, messages,
                 status, clock>>

\* await Conversation.findBetweenUsers(...); if (!conversation) new Conversation
StepFindConversation(i) ==
  /\ tasks[i].pc = "findConversation"
  /\ LET t == tasks[i]
         k == findBetweenUsers(conversations, t.userId, ModelOf(t.userRole),
                               t.receiverId, t.receiverModel)
     IN IF k # 0
        THEN /\ tasks' = [tasks EXCEPT ![i] =
                   [t EXCEPT !.conv = k, !.doc = conversations[k],
                             !.pc = AfterConversation(t)]]
             /\ clock' = clock
        ELSE /\ tasks' = [tasks EXCEPT ![i] =
                   [t EXCEPT !.doc = NewConversation(t.userId, ModelOf(t.userRole),
                                                     t.receiverId, t.receiverModel,
                                                     clock),
                             !.pc = "createConversation"]]
             /\ clock' = clock + 1
  /\ UNCHANGED <<sockets, connectedUsers, userSockets, conversations, messages,
                 status>>

\* await conversation.save() of the new document: validate, then insert
StepCreateConversation(i) ==
  /\ tasks[i].pc = "createConversation"
  /\ LET t == tasks[i]
         valid == \A p \in DOMAIN t.doc.participants :
                    ValidUserModel(t.doc.participants[p].userModel)
     IN IF valid
        THEN /\ conversations' = Append(conversations, t.doc)
             /\ tasks' = [tasks EXCEPT ![i] =
                   [t EXCEPT !.conv = Len(conversations) + 1,
                             !.created = Len(conversations) + 1,
                             !.pc = AfterConversation(t)]]
        ELSE /\ conversations' = conversations
             /\ tasks' = [tasks EXCEPT ![i] = Caught(t)]
  /\ UNCHANGED <<sockets, connectedUsers, userSockets, messages, status, clock>>

\* await message.save()
StepSaveMessage(i) ==
  /\ tasks[i].pc = "saveMessage"
  /\ LET t == tasks[i]
     IN /\ messages' = Append(messages,
              NewMessage(t.userId, ModelOf(t.userRole), t.receiverId,
                         t.receiverModel, clock))
        /\ tasks' = [tasks EXCEPT ![i] =
              [t EXCEPT !.msg = Len(messages) + 1, !.pc = "populate"]]
  /\ clock' = clock + 1
  /\ UNCHANGED <<sockets, connectedUsers, userSockets, conversations, status>>

\* lastMessage, lastActivity and the receiver's unreadCount += 1, on the
\* document the task holds in memory
Touched(doc, m, rid, t) ==
  LET p == FindParticipant(doc, rid)
      d == [doc EXCEPT !.lastMessage = m, !.lastActivity = t]
  IN IF p = 0 THEN d
     ELSE [d EXCEPT !.participants[p].unreadCount = @ + 1]

\* the two populate calls, then the in-memory update of the conversation;
\* for startConversation / getOrCreateConversation: populate, then res.json
StepPopulate(i) ==
  /\ tasks[i].pc = "populate"
  /\ LET t == tasks[i]
     IN IF IsSend(t)
        THEN /\ tasks' = [tasks EXCEPT ![i] =
                   [t EXCEPT !.doc = Touched(t.doc, t.msg, t.receiverId, clock),
                             !.pc = "saveConversation"]]
             /\ clock' = clock + 1
        ELSE /\ tasks' = [tasks EXCEPT ![i] =
                   [t EXCEPT !.pc = "done", !.outcome = "ok", !.doc = NoDoc]]
             /\ clock' = clock
  /\ UNCHANGED <<sockets, connectedUsers, userSockets, conversations, messages,
                 status>>

\* conversation.save() of a loaded document writes the modified paths only:
\* lastMessage, lastActivity and participants.<p>.unreadCount
Saved(stored, doc, rid) ==
  LET p == FindParticipant(doc, rid)
      d == [stored EXCEPT !.lastMessage = doc.lastMessage,
                          !.lastActivity = doc.lastActivity]
  IN IF p = 0 THEN d
     ELSE [d EXCEPT !.participants[p].unreadCount =
                      doc.participants[p].unreadCount]

\* faulty variant: the acknowledgment is emitted first
SendEmitsAckFirst(t) ==
  <<ToSocket("message_sent", t.conn, t.msg),
    ToConversation("new_message", t.conv, t.msg, {}),
    ToUser("message_notification", t.receiverId, t.msg)>>

\* faulty variant: the sender gets no acknowledgment
SendEmitsNoAck(t) ==
  <<ToConversation("new_message", t.conv, t.msg, {}),
    ToUser("message_notification", t.receiverId, t.msg)>>

\* the three emits that end handleSendMessage, in program order
SendEmits(t) ==
  <<ToConversation("new_message", t.conv, t.msg, {}),
    ToUser("message_notification", t.receiverId, t.msg),
    ToSocket("message_sent", t.conn, t.msg)>>

\* await conversation.save(), then the emits (socket) or res.json (REST)
StepSaveConversation(i) ==
  /\ tasks[i].pc = "saveConversation"
  /\ LET t == tasks[i]
     IN /\ conversations' = [conversations EXCEPT ![t.conv] =
                                Saved(@, t.doc, t.receiverId)]
        /\ tasks' = [tasks EXCEPT ![i] =
              [t EXCEPT !.saved = TRUE, !.pc = "done", !.outcome = "ok",
                        !.doc = NoDoc,
                        !.emitted = IF t.kind = "socketSend"
                                    THEN t.emitted \o SendEmits(t)
                                    ELSE t.emitted]]
  /\ UNCHANGED <<sockets, connectedUsers, userSockets, messages, status, clock>>

\* a pending store call rejects (StoreUnavailable); the handler's catch runs
StorePcs == {"findReceiver", "findConversation", "createConversation",
             "saveMessage", "populate", "saveConversation",
             "updateMessages", "updateConversation",
             "findOwn", "findMessages", "markFetched", "resetFetched"}

StoreFault(i) ==
  /\ tasks[i].pc \in StorePcs
  /\ tasks' = [tasks EXCEPT ![i] = Caught(@)]
  /\ UNCHANGED <<sockets, connectedUsers, userSockets, conversations, messages,
                 status, clock>>

\* POST /conversations (startConversation) and
\* GET /conversations/user/:userId (getOrCreateConversation), to the first await
RestStartConversation(kind, who, r) ==
  /\ Len(tasks) < MaxTasks
  /\ tasks' = Append(tasks, NewTask(kind, 0, who, r.id, r.model, "findReceiver"))
  /\ UNCHANGED <<sockets, connectedUsers, userSockets, conversations, messages,
                 status, clock>>

\* ------------------------------------------------------------- read
\* socket.on("mark_messages_read") up to the first await of
\* handleMarkMessagesRead; readAt: new Date() is computed with the call
MarkMessagesRead(c, k, ids) ==
  /\ sockets[c].state = "authenticated"
  /\ Len(tasks) < MaxTasks
  /\ tasks' = Append(tasks,
        [NewTask("markRead", c,
                 [id |-> sockets[c].userId, role |-> sockets[c].userRole],
                 "", "", "updateMessages")
           EXCEPT !.conversationId = k, !.messageIds = ids, !.at = clock])
  /\ clock' = clock + 1
  /\ UNCHANGED <<sockets, connectedUsers, userSockets, conversations, messages,
                 status>>

\* mark_messages_read without a payload: the destructuring of data throws
MarkMalformed(c) ==
  /\ sockets[c].state = "authenticated"
  /\ Len(tasks) < MaxTasks
  /\ tasks' = Append(tasks,
        Caught(NewTask("markRead", c,
                       [id |-> sockets[c].userId, role |-> sockets[c].userRole],
                       "", "", "start")))
  /\ UNCHANGED <<sockets, connectedUsers, userSockets, conversations, messages,
                 status, clock>>

\* faulty variant: the id set is ignored, every unread message of the reader matches
ReadFilterAllUnread(m, id, ids, reader) ==
  m.receiver = reader /\ ~m.isRead

\* faulty variant: messages already read match again
ReadFilterAnyState(m, id, ids, reader) ==
  id \in ids /\ m.receiver = reader

\* the filter of Message.updateMany in handleMarkMessagesRead
ReadFilter(m, id, ids, reader) ==
  id \in ids /\ m.receiver = reader /\ ~m.isRead

\* await Message.updateMany(filter, {isRead: true, readAt})
StepUpdateMessages(i) ==
  /\ tasks[i].pc = "updateMessages"
  /\ LET t == tasks[i]
         hit == {id \in DOMAIN messages :
                   ReadFilter(messages[id], id, t.messageIds, t.userId)}
     IN /\ messages' = [id \in DOMAIN messages |->
                          IF id \in hit
                          THEN [messages[id] EXCEPT !.isRead = TRUE, !.readAt = t.at]
                          ELSE messages[id]]
        /\ tasks' = [tasks EXCEPT ![i] =
              [t EXCEPT !.moved = hit, !.pc = "updateConversation"]]
  /\ UNCHANGED <<sockets, connectedUsers, userSockets, conversations, status,
                 clock>>

\* faulty variant: the counter is decremented by one instead of reset
ResetUnreadDecrement(convs, k, reader) ==
  IF k \in DOMAIN convs /\ FindParticipant(convs[k], reader) # 0
  THEN [convs EXCEPT ![k].participants[FindParticipant(convs[k], reader)]
                       .unreadCount = IF @ > 0 THEN @ - 1 ELSE 0]
  ELSE convs

\* Conversation.updateOne({_id, "participants.user": userId},
\*   {$set: {"participants.$.unreadCount": 0}}): the positional operator is
\* the first participants entry with that user
ResetUnread(convs, k, reader) ==
  IF k \in DOMAIN convs /\ FindParticipant(convs[k], reader) # 0
  THEN [convs EXCEPT ![k].participants[FindParticipant(convs[k], reader)]
                       .unreadCount = 0]
  ELSE convs

\* await Conversation.updateOne(...), then the messages_read emit
StepUpdateConversation(i) ==
  /\ tasks[i].pc = "updateConversation"
  /\ LET t == tasks[i]
     IN /\ conversations' = ResetUnread(conversations, t.conversationId, t.userId)
        /\ tasks' = [tasks EXCEPT ![i] =
              [t EXCEPT !.pc = "done", !.outcome = "ok",
                        !.emitted = Append(t.emitted,
                           ToConversation("messages_read", t.conversationId, 0,
                                          t.messageIds))]]
  /\ clock' = clock + 1
  /\ UNCHANGED <<sockets, connectedUsers, userSockets, messages, status>>

\* ------------------------------------------------------------ history
\* GET /conversations/:conversationId/messages (getMessages) to its first
\* await
GetMessages(who, k) ==
  /\ Len(tasks) < MaxTasks
  /\ tasks' = Append(tasks,
        [NewTask("getMessages", 0, who, "", "", "findOwn")
           EXCEPT !.conversationId = k])
  /\ UNCHANGED <<sockets, connectedUsers, userSockets, conversations, messages,
                 status, clock>>

\* the same with ?page= and ?limit= in the query
GetMessagesPage(who, k, page, limit) ==
  /\ Len(tasks) < MaxTasks
  /\ tasks' = Append(tasks,
        [NewTask("getMessages", 0, who, "", "", "findOwn")
           EXCEPT !.conversationId = k, !.page = page, !.limit = limit])
  /\ UNCHANGED <<sockets, connectedUsers, userSockets, conversations, messages,
                 status, clock>>

\* the filter of Conversation.findOne in getMessages: the _id, and some
\* participants entry with the user, some entry with the userModel
FindOwn(convs, k, id, model) ==
  /\ k \in DOMAIN convs
  /\ \E p \in DOMAIN convs[k].participants : convs[k].participants[p].user = id
  /\ \E p \in DOMAIN convs[k].participants :
       convs[k].participants[p].userModel = model

\* await Conversation.findOne(...); if (!conversation) next(createError(404))
StepFindOwn(i) ==
  /\ tasks[i].pc = "findOwn"
  /\ LET t == tasks[i]
     IN tasks' = [tasks EXCEPT ![i] =
          IF FindOwn(conversations, t.conversationId, t.userId,
                     ModelOf(t.userRole))
          THEN [t EXCEPT !.conv = t.conversationId,
                         !.doc = conversations[t.conversationId],
                         !.pc = "findMessages"]
          ELSE Caught(t)]
  /\ UNCHANGED <<sockets, connectedUsers, userSockets, conversations, messages,
                 status, clock>>

\* conversation.participants.map((p) => p.user)
ParticipantIds(doc) == {doc.participants[p].user : p \in DOMAIN doc.participants}

\* the filter of Message.find in getMessages
FindFilter(m, ids, who) ==
  /\ \/ m.sender = who /\ m.receiver \in ids
     \/ m.receiver = who /\ m.sender \in ids
  /\ ~m.isDeleted

\* .sort({ createdAt: -1 }) of the ids in S
RECURSIVE SortNewestFirst(_, _)
SortNewestFirst(msgs, S) ==
  IF S = {} THEN <<>>
  ELSE LET m == CHOOSE x \in S :
                  \A y \in S : msgs[y].createdAt <= msgs[x].createdAt
       IN <<m>> \o SortNewestFirst(msgs, S \ {m})

\* .skip(n) and .limit(n) of a query, applied in that order by the store
Skip(s, n) == SubSeq(s, n + 1, Len(s))
Limit(s, n) == SubSeq(s, 1, IF n < Len(s) THEN n ELSE Len(s))
\* Array.prototype.reverse
Reverse(s) == [j \in 1..Len(s) |-> s[Len(s) + 1 - j]]

\* Message.find(...).sort({createdAt: -1}).limit(limit * page)
\*   .skip((page - 1) * limit)
FindMessages(msgs, doc, who, page, limit) ==
  Limit(Skip(SortNewestFirst(msgs,
               {m \in DOMAIN msgs : FindFilter(msgs[m], ParticipantIds(doc), who)}),
             (page - 1) * limit),
        limit * page)

\* await Message.find(...), then readAt: new Date() of the updateMany call
StepFindMessages(i) ==
  /\ tasks[i].pc = "findMessages"
  /\ LET t == tasks[i]
     IN tasks' = [tasks EXCEPT ![i] =
          [t EXCEPT !.listed = FindMessages(messages, t.doc, t.userId,
                                            t.page, t.limit),
                    !.at = clock, !.pc = "markFetched"]]
  /\ clock' = clock + 1
  /\ UNCHANGED <<sockets, connectedUsers, userSockets, conversations, messages,
                 status>>

\* faulty variant: the receiver is not part of the filter
FetchFilterAnyReceiver(m, senders, reader) ==
  m.sender \in senders /\ ~m.isRead

\* the filter of Message.updateMany in getMessages
FetchFilter(m, senders, reader) ==
  m.receiver = reader /\ m.sender \in senders /\ ~m.isRead

\* await Message.updateMany(filter, {isRead: true, readAt})
StepMarkFetched(i) ==
  /\ tasks[i].pc = "markFetched"
  /\ LET t == tasks[i]
         hit == {id \in DOMAIN messages :
                   FetchFilter(messages[id], ParticipantIds(t.doc), t.userId)}
     IN /\ messages' = [id \in DOMAIN messages |->
                          IF id \in hit
                          THEN [messages[id] EXCEPT !.isRead = TRUE, !.readAt = t.at]
                          ELSE messages[id]]
        /\ tasks' = [tasks EXCEPT ![i] =
              [t EXCEPT !.moved = hit, !.pc = "resetFetched"]]
  /\ UNCHANGED <<sockets, connectedUsers, userSockets, conversations, status,
                 clock>>

\* await Conversation.updateOne(...), then res.json with messages.reverse()
StepResetFetched(i) ==
  /\ tasks[i].pc = "resetFetched"
  /\ LET t == tasks[i]
     IN /\ conversations' = ResetUnread(conversations, t.conversationId, t.userId)
        /\ tasks' = [tasks EXCEPT ![i] =
              [t EXCEPT !.pc = "done", !.outcome = "ok", !.doc = NoDoc,
                        !.listed = Reverse(t.listed)]]
  /\ UNCHANGED <<sockets, connectedUsers, userSockets, messages, status, clock>>

\* ---------------------------------------------------- specifications
\* the whole gateway, from construction
Next ==
  \/ \E c \in Conns : Connect(c)
  \/ \E c \in Conns : Reject(c)
  \/ \E c \in Conns : Disconnect(c)
  \/ \E c \in Conns : \E k \in PresenceRooms : JoinConversation(c, k)
  \/ \E c \in Conns : \E k \in PresenceRooms : LeaveConversation(c, k)
  \/ \E c \in Conns : \E k \in PresenceRooms : \E ev \in TypingEvents :
        TypingEvent(c, k, ev)
  \/ \E in \in SocketSends : SendMessage(in[1], in[2])
  \/ \E c \in Conns : SendMalformed(c)
  \/ \E in \in RestSends : RestSendMessage(in[1], in[2])
  \/ \E in \in RestStarts : RestStartConversation(in[1], in[2], in[3])
  \/ \E c \in Conns : \E k \in ReadConversations : \E ids \in ReadIdSets :
        MarkMessagesRead(c, k, ids)
  \/ \E c \in Conns : MarkMalformed(c)
  \/ \E i \in DOMAIN tasks : StepFindReceiver(i)
  \/ \E i \in DOMAIN tasks : StepFindConversation(i)
  \/ \E i \in DOMAIN tasks : StepCreateConversation(i)
  \/ \E i \in DOMAIN tasks : StepSaveMessage(i)
  \/ \E i \in DOMAIN tasks : StepPopulate(i)
  \/ \E i \in DOMAIN tasks : StepSaveConversation(i)
  \/ \E i \in DOMAIN tasks : StepUpdateMessages(i)
  \/ \E i \in DOMAIN tasks : StepUpdateConversation(i)
  \/ \E who \in FetchCallers : \E k \in ReadConversations : GetMessages(who, k)
  \/ \E i \in DOMAIN tasks : StepFindOwn(i)
  \/ \E i \in DOMAIN tasks : StepFindMessages(i)
  \/ \E i \in DOMAIN tasks : StepMarkFetched(i)
  \/ \E i \in DOMAIN tasks : StepResetFetched(i)
  \/ \E i \in DOMAIN tasks : StoreFault(i)

Spec == Init /\ [][Next]_vars

\* both sockets have connected: the maps after Connect(1) and Connect(2)
OnlineUsers == [u \in AllIds |->
                 IF \E c \in Conns : Token(c).id = u
                 THEN CHOOSE c \in Conns : Token(c).id = u ELSE 0]
OnlineStatus == [u \in AllIds |->
                  IF \E c \in Conns : Token(c).id = u THEN "online" ELSE "none"]
OnlineSockets ==
  LET first == Broadcast([[c \in Conns |-> Connecting] EXCEPT ![1] = Connected(1)],
                         StatusChange(Token(1).id, "online"))
  IN Broadcast([first EXCEPT ![2] = Connected(2)],
               StatusChange(Token(2).id, "online"))

\* message delivery: sends over both sockets and REST, conversation starts,
\* failing store calls, on an empty store
DeliveryInit ==
  /\ sockets = OnlineSockets
  /\ connectedUsers = OnlineUsers
  /\ userSockets = [c \in Conns |-> Token(c).id]
  /\ status = OnlineStatus
  /\ conversations = <<>>
  /\ messages = <<>>
  /\ tasks = <<>>
  /\ clock = 1

DeliveryNext ==
  \/ \E in \in SocketSends : SendMessage(in[1], in[2])
  \/ \E c \in {1} : SendMalformed(c)
  \/ \E in \in RestSends : RestSendMessage(in[1], in[2])
  \/ \E in \in RestStarts : RestStartConversation(in[1], in[2], in[3])
  \/ \E i \in DOMAIN tasks : StepFindReceiver(i)
  \/ \E i \in DOMAIN tasks : StepFindConversation(i)
  \/ \E i \in DOMAIN tasks : StepCreateConversation(i)
  \/ \E i \in DOMAIN tasks : StepSaveMessage(i)
  \/ \E i \in DOMAIN tasks : StepPopulate(i)
  \/ \E i \in DOMAIN tasks : StepSaveConversation(i)
  \/ \E i \in DOMAIN tasks : StoreFault(i)

Delivery == DeliveryInit /\ [][DeliveryNext]_vars

\* the socket send path alone: overlapping send_message events of socket 1,
\* failing store calls, on an empty store
SendingNext ==
  \/ \E in \in {s \in SocketSends : s[1] = 1} : SendMessage(in[1], in[2])
  \/ \E c \in {1} : SendMalformed(c)
  \/ \E i \in DOMAIN tasks : StepFindReceiver(i)
  \/ \E i \in DOMAIN tasks : StepFindConversation(i)
  \/ \E i \in DOMAIN tasks : StepCreateConversation(i)
  \/ \E i \in DOMAIN tasks : StepSaveMessage(i)
  \/ \E i \in DOMAIN tasks : StepPopulate(i)
  \/ \E i \in DOMAIN tasks : StepSaveConversation(i)
  \/ \E i \in DOMAIN tasks : StoreFault(i)

Sending == DeliveryInit /\ [][SendingNext]_vars

\* the store after n sends from u2 to u1, each run to its end before the next
SeedMessages(n) ==
  [j \in 1..n |-> NewMessage("u2", "User", "u1", "User", 2 * j)]
SeedConversations(n) ==
  IF n = 0 THEN <<>>
  ELSE <<[NewConversation("u2", "User", "u1", "User", 1) EXCEPT
            !.lastMessage = n, !.lastActivity = 2 * n + 1,
            !.participants[2].unreadCount = n]>>
SeedClock(n) == IF n = 0 THEN 1 ELSE 2 * n + 2

\* read receipts: u1 (a participant) and a1 (not one) mark messages read
\* while u2 sends and store calls fail, on a store of 0..MaxSeed messages
ReadingInit ==
  /\ sockets = OnlineSockets
  /\ connectedUsers = OnlineUsers
  /\ userSockets = [c \in Conns |-> Token(c).id]
  /\ status = OnlineStatus
  /\ \E n \in 0..MaxSeed :
        /\ conversations = SeedConversations(n)
        /\ messages = SeedMessages(n)
        /\ clock = SeedClock(n)
  /\ tasks = <<>>

ReadingNext ==
  \/ \E c \in Conns : \E k \in ReadConversations : \E ids \in ReadIdSets :
        MarkMessagesRead(c, k, ids)
  \/ \E c \in {1} : MarkMalformed(c)
  \/ \E in \in ReadSends : RestSendMessage(in[1], in[2])
  \/ \E i \in DOMAIN tasks : StepFindReceiver(i)
  \/ \E i \in DOMAIN tasks : StepFindConversation(i)
  \/ \E i \in DOMAIN tasks : StepCreateConversation(i)
  \/ \E i \in DOMAIN tasks : StepSaveMessage(i)
  \/ \E i \in DOMAIN tasks : StepPopulate(i)
  \/ \E i \in DOMAIN tasks : StepSaveConversation(i)
  \/ \E i \in DOMAIN tasks : StepUpdateMessages(i)
  \/ \E i \in DOMAIN tasks : StepUpdateConversation(i)
  \/ \E i \in DOMAIN tasks : StoreFault(i)

Reading == ReadingInit /\ [][ReadingNext]_vars

\* history fetches: participants u1 and u2 and the outsider a1 fetch
\* conversation 1 while u2 sends and store calls fail, on a store of
\* 0..MaxSeed messages
FetchingNext ==
  \/ \E who \in FetchCallers : \E k \in ReadConversations : GetMessages(who, k)
  \/ \E in \in ReadSends : RestSendMessage(in[1], in[2])
  \/ \E i \in DOMAIN tasks : StepFindReceiver(i)
  \/ \E i \in DOMAIN tasks : StepFindConversation(i)
  \/ \E i \in DOMAIN tasks : StepCreateConversation(i)
  \/ \E i \in DOMAIN tasks : StepSaveMessage(i)
  \/ \E i \in DOMAIN tasks : StepPopulate(i)
  \/ \E i \in DOMAIN tasks : StepSaveConversation(i)
  \/ \E i \in DOMAIN tasks : StepFindOwn(i)
  \/ \E i \in DOMAIN tasks : StepFindMessages(i)
  \/ \E i \in DOMAIN tasks : StepMarkFetched(i)
  \/ \E i \in DOMAIN tasks : StepResetFetched(i)
  \/ \E i \in DOMAIN tasks : StoreFault(i)

Fetching == ReadingInit /\ [][FetchingNext]_vars

\* read state: mark_messages_read of both sockets, history fetches and
\* sends, overlapping, on a store of 0..MaxSeed messages
ReadStateNext ==
  \/ \E c \in Conns : \E k \in ReadConversations : \E ids \in ReadIdSets :
        MarkMessagesRead(c, k, ids)
  \/ \E who \in FetchCallers : \E k \in ReadConversations : GetMessages(who, k)
  \/ \E in \in ReadSends : RestSendMessage(in[1], in[2])
  \/ \E i \in DOMAIN tasks : StepFindReceiver(i)
  \/ \E i \in DOMAIN tasks : StepFindConversation(i)
  \/ \E i \in DOMAIN tasks : StepCreateConversation(i)
  \/ \E i \in DOMAIN tasks : StepSaveMessage(i)
  \/ \E i \in DOMAIN tasks : StepPopulate(i)
  \/ \E i \in DOMAIN tasks : StepSaveConversation(i)
  \/ \E i \in DOMAIN tasks : StepUpdateMessages(i)
  \/ \E i \in DOMAIN tasks : StepUpdateConversation(i)
  \/ \E i \in DOMAIN tasks : StepFindOwn(i)
  \/ \E i \in DOMAIN tasks : StepFindMessages(i)
  \/ \E i \in DOMAIN tasks : StepMarkFetched(i)
  \/ \E i \in DOMAIN tasks : StepResetFetched(i)

ReadState == ReadingInit /\ [][ReadStateNext]_vars

\* sender identity: both sockets send the same payloads to u2, overlapping
IdentityNext ==
  \/ \E c \in Conns : \E r \in IdentitySends : SendMessage(c, r)
  \/ \E i \in DOMAIN tasks : StepFindReceiver(i)
  \/ \E i \in DOMAIN tasks : StepFindConversation(i)
  \/ \E i \in DOMAIN tasks : StepCreateConversation(i)
  \/ \E i \in DOMAIN tasks : StepSaveMessage(i)
  \/ \E i \in DOMAIN tasks : StepPopulate(i)
  \/ \E i \in DOMAIN tasks : StepSaveConversation(i)

Identity == DeliveryInit /\ [][IdentityNext]_vars

\* one send on its own: the send_message of socket 1 or the POST /messages
\* of the same participant, on a store of 0..MaxSeed messages
EquivalentNext ==
  \/ \E r \in EqualSends : tasks = <<>> /\ SendMessage(1, r)
  \/ \E r \in EqualSends : tasks = <<>> /\ RestSendMessage(U1, r)
  \/ \E i \in DOMAIN tasks : StepFindReceiver(i)
  \/ \E i \in DOMAIN tasks : StepFindConversation(i)
  \/ \E i \in DOMAIN tasks : StepCreateConversation(i)
  \/ \E i \in DOMAIN tasks : StepSaveMessage(i)
  \/ \E i \in DOMAIN tasks : StepPopulate(i)
  \/ \E i \in DOMAIN tasks : StepSaveConversation(i)

Equivalent == ReadingInit /\ [][EquivalentNext]_vars

\* the store call task i awaits returns: with its result, or rejected
Returns(i) ==
  \/ StepFindReceiver(i)
  \/ StepFindConversation(i)
  \/ StepCreateConversation(i)
  \/ StepSaveMessage(i)
  \/ StepPopulate(i)
  \/ StepSaveConversation(i)
  \/ StoreFault(i)

\* a send whose store calls may never return: those of socket 1
MayStall(t) == t.conn = 1

\* send_message events of both sockets; every store call returns except those
\* of the sends that may stall. The event loop runs a handler's continuation
\* once its awaited promise settles, whatever other handlers are awaiting.
CompletingNext ==
  \/ \E in \in CompletingSends : SendMessage(in[1], in[2])
  \/ \E c \in {2} : SendMalformed(c)
  \/ \E i \in DOMAIN tasks : StepFindReceiver(i)
  \/ \E i \in DOMAIN tasks : StepFindConversation(i)
  \/ \E i \in DOMAIN tasks : StepCreateConversation(i)
  \/ \E i \in DOMAIN tasks : StepSaveMessage(i)
  \/ \E i \in DOMAIN tasks : StepPopulate(i)
  \/ \E i \in DOMAIN tasks : StepSaveConversation(i)
  \/ \E i \in DOMAIN tasks : StoreFault(i)

Completing ==
  /\ DeliveryInit
  /\ [][CompletingNext]_vars
  /\ \A i \in 1..MaxTasks :
       WF_vars(i \in DOMAIN tasks /\ ~MayStall(tasks[i]) /\ Returns(i))

\* paged history: u1 fetches pages of conversation 1 while nothing is sent,
\* on a store of 0..MaxSeed messages
PagingNext ==
  \/ \E page \in Pages : \E limit \in Limits : GetMessagesPage(U1, 1, page, limit)
  \/ \E i \in DOMAIN tasks : StepFindOwn(i)
  \/ \E i \in DOMAIN tasks : StepFindMessages(i)
  \/ \E i \in DOMAIN tasks : StepMarkFetched(i)
  \/ \E i \in DOMAIN tasks : StepResetFetched(i)

Paging == ReadingInit /\ [][PagingNext]_vars

\* no handler is between two awaits
Idle == \A i \in DOMAIN tasks : tasks[i].pc = "done"

\* sends that take turns: each send_message or POST /messages starts when
\* the one before has run to its end, on a store of 0..MaxSeed messages
PairingNext ==
  \/ \E in \in SocketSends : Idle /\ SendMessage(in[1], in[2])
  \/ \E in \in PairSends : Idle /\ RestSendMessage(in[1], in[2])
  \/ \E i \in DOMAIN tasks : StepFindReceiver(i)
  \/ \E i \in DOMAIN tasks : StepFindConversation(i)
  \/ \E i \in DOMAIN tasks : StepCreateConversation(i)
  \/ \E i \in DOMAIN tasks : StepSaveMessage(i)
  \/ \E i \in DOMAIN tasks : StepPopulate(i)
  \/ \E i \in DOMAIN tasks : StepSaveConversation(i)

Pairing == ReadingInit /\ [][PairingNext]_vars

\* presence and rooms: six connection attempts (three with a credential the
\* middleware refuses), disconnects, rooms and typing indicators
PresenceInit ==
  /\ sockets = [c \in PresenceConns |-> Connecting]
  /\ connectedUsers = [u \in AllIds |-> 0]
  /\ userSockets = [c \in PresenceConns |-> ""]
  /\ conversations = <<>>
  /\ messages = <<>>
  /\ tasks = <<>>
  /\ status = [u \in AllIds |-> "none"]
  /\ clock = 1

PresenceNext ==
  \/ \E c \in PresenceConns : Connect(c)
  \/ \E c \in PresenceConns : Reject(c)
  \/ \E c \in PresenceConns : Disconnect(c)
  \/ \E c \in PresenceConns : \E k \in PresenceRooms : JoinConversation(c, k)
  \/ \E c \in PresenceConns : \E k \in PresenceRooms : LeaveConversation(c, k)
  \/ \E c \in PresenceConns : \E k \in PresenceRooms : \E ev \in TypingEvents :
        TypingEvent(c, k, ev)
  \/ \E c \in PresenceConns : SendMalformed(c)

Presence == PresenceInit /\ [][PresenceNext]_vars

\* presence and rooms alone, no send or read event
RoomsNext ==
  \/ \E c \in PresenceConns : Connect(c)
  \/ \E c \in PresenceConns : Reject(c)
  \/ \E c \in PresenceConns : Disconnect(c)
  \/ \E c \in PresenceConns : \E k \in PresenceRooms : JoinConversation(c, k)
  \/ \E c \in PresenceConns : \E k \in PresenceRooms : LeaveConversation(c, k)
  \/ \E c \in PresenceConns : \E k \in PresenceRooms : \E ev \in TypingEvents :
        TypingEvent(c, k, ev)

Rooms == PresenceInit /\ [][RoomsNext]_vars

\* the presence registry as a data type: connections come and go, and the
\* registration and removal statements are applied again to sockets they
\* were already applied to
RegistryNext ==
  \/ \E c \in PresenceConns : Connect(c)
  \/ \E c \in PresenceConns : Reject(c)
  \/ \E c \in PresenceConns : Disconnect(c)
  \/ \E c \in PresenceConns : RegisterAgain(c)
  \/ \E c \in PresenceConns : UnregisterAgain(c)

Registry == PresenceInit /\ [][RegistryNext]_vars

\* ================================================================ claims
\* the (participant, variant) tuples of a conversation, as a set
PairOf(c) ==
  {<<c.participants[i].user, c.participants[i].userModel>> :
     i \in DOMAIN c.participants}

\* the receiver a payload names exists in the store of the variant it claims
ReceiverExists(t) ==
  \/ t.receiverModel = "User" /\ t.receiverId \in UserStore
  \/ t.receiverModel = "Admin" /\ t.receiverId \in AdminStore

\* a send_message that carried a payload
IsSocketSend(t) == t.kind = "socketSend" /\ t.receiverModel # ""
IsMarkRead(t) == t.kind = "markRead" /\ t.conversationId # 0

EventNames(t) == [n \in DOMAIN t.emitted |-> t.emitted[n].ev]

\* the result of Message.find in getMessages for a participant of
\* conversation k (no conversation for a requester outside of it)
History(convs, msgs, k, id, model) ==
  IF /\ k \in DOMAIN convs
     /\ \E p \in DOMAIN convs[k].participants : convs[k].participants[p].user = id
     /\ \E p \in DOMAIN convs[k].participants :
          convs[k].participants[p].userModel = model
  THEN LET ps == {convs[k].participants[p].user : p \in DOMAIN convs[k].participants}
       IN {m \in DOMAIN msgs :
             /\ ~msgs[m].isDeleted
             /\ \/ msgs[m].sender = id /\ msgs[m].receiver \in ps
                \/ msgs[m].receiver = id /\ msgs[m].sender \in ps}
  ELSE {}

\* C1: at most one Conversation record exists per unordered pair of
\* (participant, variant) tuples, in every reachable state, whatever the
\* interleaving of the socket send, REST send and conversation start tasks.
C1_OneConversationPerPair ==
  \A i, j \in DOMAIN conversations :
    i # j => PairOf(conversations[i]) # PairOf(conversations[j])

\* C2: once no send is in flight, every participant's unreadCount on a
\* conversation equals the number of successful sends addressed to that
\* participant in it (each send adds exactly 1 to the receiver and nothing
\* to the sender), whatever the interleaving of the sends.
C2_UnreadCountsSends ==
  (\A i \in DOMAIN tasks : tasks[i].pc = "done") =>
    \A k \in DOMAIN conversations :
      \A p \in DOMAIN conversations[k].participants :
        conversations[k].participants[p].unreadCount =
          Cardinality({i \in DOMAIN tasks :
                         /\ IsSend(tasks[i]) /\ tasks[i].outcome = "ok"
                         /\ tasks[i].conv = k
                         /\ tasks[i].receiverId =
                              conversations[k].participants[p].user})

\* C6: a send_message naming a receiver that does not exist in the store of
\* the claimed variant persists nothing (no Conversation created or
\* modified, no Message created), emits nothing but message_error to its
\* own socket, and ends with exactly that message_error.
C6_UnknownReceiverNoEffect ==
  /\ \A i \in DOMAIN tasks :
       LET t == tasks[i] IN
       (IsSocketSend(t) /\ ~ReceiverExists(t)) =>
         /\ t.created = 0 /\ t.msg = 0 /\ ~t.saved
         /\ \A n \in DOMAIN t.emitted :
              t.emitted[n] = ToSocket("message_error", t.conn, 0)
         /\ t.pc = "done" =>
              t.outcome = "error" /\ Len(t.emitted) = 1
  /\ \A m \in DOMAIN messages :
       ReceiverExists([receiverId |-> messages[m].receiver,
                       receiverModel |-> messages[m].receiverModel])
  /\ \A k \in DOMAIN conversations :
       \A p \in DOMAIN conversations[k].participants :
         ReceiverExists([receiverId |-> conversations[k].participants[p].user,
                         receiverModel |->
                           conversations[k].participants[p].userModel])

C6_Witness ==
  \E i \in DOMAIN tasks :
    /\ IsSocketSend(tasks[i]) /\ tasks[i].receiverId = GhostId
    /\ tasks[i].pc = "done" /\ tasks[i].outcome = "error"
    /\ Len(messages) > 0

\* C7: a send_message whose handling failed at any step has emitted exactly
\* one event, message_error, to the originating socket and to no room; the
\* socket is still authenticated and accepts a further send_message, and a
\* send started on that socket after the failure runs the normal sequence
\* (it ends with the three delivery events or with its own message_error).
C7_FailureScopedToSender ==
  \A i \in DOMAIN tasks :
    LET t == tasks[i] IN
    /\ (t.kind = "socketSend" /\ t.outcome = "error") =>
         /\ t.emitted = <<ToSocket("message_error", t.conn, 0)>>
         /\ sockets[t.conn].state = "authenticated"
         /\ Len(tasks) < MaxTasks =>
              \A in \in SocketSends :
                in[1] = t.conn => ENABLED SendMessage(in[1], in[2])
    /\ (t.kind = "socketSend" /\ t.afterError /\ t.pc = "done") =>
         \/ /\ t.outcome = "ok" /\ t.saved /\ t.msg \in DOMAIN messages
            /\ EventNames(t) =
                 <<"new_message", "message_notification", "message_sent">>
         \/ /\ t.outcome = "error"
            /\ EventNames(t) = <<"message_error">>

C7_Witness ==
  \E i, j \in DOMAIN tasks :
    /\ i < j /\ tasks[i].conn = tasks[j].conn
    /\ tasks[i].kind = "socketSend" /\ tasks[i].outcome = "error"
    /\ tasks[i].msg # 0
    /\ tasks[j].kind = "socketSend" /\ tasks[j].afterError
    /\ tasks[j].outcome = "ok"

\* C8: a send that ended with message_error is invisible to the receiver:
\* no Message of it is returned by the receiver's history fetch (or exists
\* at all), no Conversation is left created by it, and it has changed no
\* unreadCount.
C8_FailedSendInvisible ==
  \A i \in DOMAIN tasks :
    LET t == tasks[i] IN
    (IsSocketSend(t) /\ t.outcome = "error") =>
      /\ t.created = 0
      /\ ~t.saved
      /\ t.msg \notin DOMAIN messages
      /\ \A k \in DOMAIN conversations :
           t.msg \notin History(conversations, messages, k, t.receiverId,
                                t.receiverModel)

\* C10: a send emits nothing before the Message and the Conversation
\* mutation are persisted, and then emits new_message (conversation room),
\* message_notification (receiver's personal room) and message_sent
\* (originating socket), in that order.
C10_EmitsOrderedAfterPersist ==
  \A i \in DOMAIN tasks :
    LET t == tasks[i] IN
    (t.kind = "socketSend" /\ t.emitted # <<>>
       /\ EventNames(t) # <<"message_error">>) =>
      /\ t.msg \in DOMAIN messages
      /\ t.saved
      /\ t.conv \in DOMAIN conversations
      /\ conversations[t.conv].lastMessage # 0
      /\ EventNames(t) = <<"new_message", "message_notification", "message_sent">>
      /\ t.emitted[1].room = "conversation" /\ t.emitted[1].conv = t.conv
      /\ t.emitted[2].room = "user" /\ t.emitted[2].user = t.receiverId
      /\ t.emitted[3].room = "socket" /\ t.emitted[3].socket = t.conn
      /\ \A n \in 1..3 : t.emitted[n].msg = t.msg

C10_Witness ==
  \E i \in DOMAIN tasks :
    /\ tasks[i].kind = "socketSend" /\ tasks[i].outcome = "ok"
    /\ Len(tasks[i].emitted) = 3
    /\ conversations[tasks[i].conv].lastMessage = tasks[i].msg
    /\ \E j \in DOMAIN tasks : j # i /\ tasks[j].pc = "saveConversation"

\* the reader of a mark_messages_read is a participant of the conversation
\* the payload names
ReaderIsParticipant(t) ==
  /\ t.conversationId \in DOMAIN conversations
  /\ \E p \in DOMAIN conversations[t.conversationId].participants :
       conversations[t.conversationId].participants[p].user = t.userId

\* C3: the step that completes a mark_messages_read of participant P on a
\* conversation P belongs to leaves P's unreadCount at exactly 0, whatever
\* ids the payload named, and changes nothing else of the conversation (the
\* other participant's unreadCount included) nor any other conversation.
C3_ReadResetsCounter ==
  [][\A i \in DOMAIN tasks :
       (/\ IsMarkRead(tasks[i]) /\ tasks[i].pc = "updateConversation"
        /\ tasks'[i].outcome = "ok" /\ ReaderIsParticipant(tasks[i])) =>
         LET k == tasks[i].conversationId
             old == conversations[k]
             new == conversations'[k]
         IN /\ DOMAIN conversations' = DOMAIN conversations
            /\ \A p \in DOMAIN old.participants :
                 IF old.participants[p].user = tasks[i].userId
                 THEN new.participants[p].unreadCount = 0
                 ELSE new.participants[p] = old.participants[p]
            /\ new.lastMessage = old.lastMessage
            /\ new.lastActivity = old.lastActivity
            /\ \A j \in DOMAIN conversations :
                 j # k => conversations'[j] = conversations[j]]_vars

C3_Witness ==
  \E i \in DOMAIN tasks :
    /\ IsMarkRead(tasks[i]) /\ tasks[i].outcome = "ok"
    /\ tasks[i].userId = "u1" /\ tasks[i].messageIds = {1}
    /\ Len(messages) >= 3
    /\ ~messages[2].isRead /\ ~messages[3].isRead
    /\ conversations[1].participants[2].user = "u1"
    /\ conversations[1].participants[2].unreadCount = 0

\* C4: the updateMany step of a mark_messages_read by reader P sets isRead
\* and readAt on exactly the messages that are in the id set, addressed to P
\* and unread; every other message keeps all its fields, and no other step
\* of the handler touches a message.
C4_ReadMarksExactlyNamed ==
  [][\A i \in DOMAIN tasks :
       (IsMarkRead(tasks[i]) /\ tasks'[i] # tasks[i]) =>
         /\ DOMAIN messages' = DOMAIN messages
         /\ \A m \in DOMAIN messages :
              IF /\ tasks[i].pc = "updateMessages"
                 /\ tasks'[i].pc = "updateConversation"
                 /\ m \in tasks[i].messageIds
                 /\ messages[m].receiver = tasks[i].userId
                 /\ ~messages[m].isRead
              THEN messages'[m] = [messages[m] EXCEPT !.isRead = TRUE,
                                                     !.readAt = tasks[i].at]
              ELSE messages'[m] = messages[m]]_vars

C4_Witness ==
  \E i \in DOMAIN tasks :
    /\ IsMarkRead(tasks[i]) /\ tasks[i].pc = "updateConversation"
    /\ tasks[i].userId = "u1" /\ tasks[i].messageIds = {1}
    /\ Len(messages) >= 3
    /\ messages[1].isRead /\ messages[1].readAt = tasks[i].at
    /\ ~messages[2].isRead /\ ~messages[3].isRead

\* C5: a mark_messages_read on an existing conversation whose reader is not
\* one of its participants fails: it ends in an error, has moved no message
\* to read, has changed no counter of the conversation and has emitted no
\* messages_read to the conversation room.
C5_NonParticipantReadFails ==
  \A i \in DOMAIN tasks :
    LET t == tasks[i] IN
    (/\ IsMarkRead(t) /\ t.pc = "done"
     /\ t.conversationId \in DOMAIN conversations
     /\ ~ReaderIsParticipant(t)) =>
      /\ t.outcome = "error"
      /\ t.moved = {}
      /\ \A n \in DOMAIN t.emitted : t.emitted[n].ev # "messages_read"

\* C9: a mark_messages_read whose handling failed (store failure or a
\* missing payload) has emitted an error event to the originating socket
\* and to no room, and the socket is still authenticated.
C9_ReadFailureReported ==
  \A i \in DOMAIN tasks :
    LET t == tasks[i] IN
    (t.kind = "markRead" /\ t.outcome = "error") =>
      /\ Len(t.emitted) = 1
      /\ t.emitted[1].room = "socket" /\ t.emitted[1].socket = t.conn
      /\ sockets[t.conn].state = "authenticated"

\* ------------------------------------------------------------ presence
\* the credential of a connection attempt is one the gateway must accept:
\* a token that decodes to a participant its store still holds
CredentialValid(c) ==
  /\ Handshake(c) = "valid"
  /\ \/ Token(c).role = "admin" /\ Token(c).id \in AdminStore
     \/ Token(c).role # "admin" /\ Token(c).id \in UserStore

\* C11: a connection attempt with a missing or invalid credential, or one
\* whose participant no longer exists, never becomes authenticated: it has
\* no entry in either presence map, is in no room and receives nothing, no
\* online status was broadcast for the deleted participant, and none of its
\* join, leave, typing, send, read or disconnect events is ever processed.
C11_RefusedNeverAuthenticated ==
  \A c \in DOMAIN sockets :
    ~CredentialValid(c) =>
      /\ sockets[c].state \in {"connecting", "rejected"}
      /\ userSockets[c] = ""
      /\ \A id \in DOMAIN connectedUsers : connectedUsers[id] # c
      /\ sockets[c].joined = {} /\ sockets[c].inbox = <<>>
      /\ Handshake(c) = "valid" =>
           /\ status[Token(c).id] = "none"
           /\ ~isUserOnline(connectedUsers, Token(c).id)
      /\ \A i \in DOMAIN tasks : tasks[i].conn # c
      /\ \A k \in PresenceRooms :
           /\ ~ENABLED JoinConversation(c, k)
           /\ ~ENABLED LeaveConversation(c, k)
           /\ \A ev \in TypingEvents : ~ENABLED TypingEvent(c, k, ev)
      /\ \A in \in SocketSends : ~ENABLED SendMessage(c, in[2])
      /\ ~ENABLED SendMalformed(c)
      /\ \A k \in ReadConversations : \A ids \in ReadIdSets :
           ~ENABLED MarkMessagesRead(c, k, ids)
      /\ ~ENABLED MarkMalformed(c)
      /\ ~ENABLED Disconnect(c)

C11_Witness ==
  /\ \A c \in {4, 5, 6} : sockets[c].state = "rejected"
  /\ sockets[1].state = "authenticated" /\ sockets[1].joined # {}
  /\ status["a1"] = "online"
  /\ \E i \in DOMAIN tasks : tasks[i].conn = 1

\* the only authenticated socket of its participant
SingleConnection(c) ==
  \A d \in DOMAIN sockets :
    (d # c /\ sockets[d].state = "authenticated") =>
      sockets[d].userId # sockets[c].userId

\* C12: when a participant connects, isOnline is true for it, it is listed
\* online and every connected socket (its own included) receives its online
\* user_status_change; when the disconnect of its single connection is
\* processed, isOnline is false at once, it is no longer listed, both map
\* entries are gone and every connected socket receives its offline
\* user_status_change.
C12_PresenceFollowsConnection ==
  [][\A c \in DOMAIN sockets :
       /\ Connect(c) =>
            /\ isUserOnline(connectedUsers', Token(c).id)
            /\ Token(c).id \in getOnlineUsers(connectedUsers')
            /\ userSockets'[c] = Token(c).id
            /\ \A d \in DOMAIN sockets :
                 sockets'[d].state = "authenticated" =>
                   sockets'[d].inbox = <<StatusChange(Token(c).id, "online")>>
       /\ (Disconnect(c) /\ SingleConnection(c)) =>
            /\ ~isUserOnline(connectedUsers', sockets[c].userId)
            /\ sockets[c].userId \notin getOnlineUsers(connectedUsers')
            /\ userSockets'[c] = ""
            /\ \A id \in DOMAIN connectedUsers : connectedUsers'[id] # c
            /\ \A d \in DOMAIN sockets :
                 sockets'[d].state = "authenticated" =>
                   sockets'[d].inbox =
                     <<StatusChange(sockets[c].userId, "offline")>>]_vars

C12_Witness ==
  /\ sockets[2].state = "disconnected"
  /\ status["a1"] = "offline"
  /\ ~isUserOnline(connectedUsers, "a1")
  /\ sockets[1].state = "authenticated"
  /\ sockets[1].inbox = <<StatusChange("a1", "offline")>>

\* C16: a typing_start or typing_stop of socket c on conversation k is
\* delivered as user_typing / user_stopped_typing to every other connected
\* socket joined to the room of k and to no other socket, never to c
\* itself, whether or not c has joined the room.
C16_TypingNotEchoed ==
  [][\A c \in DOMAIN sockets : \A k \in PresenceRooms : \A ev \in TypingEvents :
       TypingEvent(c, k, ev) =>
         \A d \in DOMAIN sockets :
           sockets'[d].inbox =
             IF d # c /\ sockets[d].state = "authenticated"
                      /\ k \in sockets[d].joined
             THEN <<Typing(ev[2], sockets[c].userId, k)>>
             ELSE <<>>]_vars

C16_Witness ==
  /\ 1 \in sockets[1].joined /\ 1 \in sockets[2].joined
  /\ sockets[1].state = "authenticated" /\ sockets[3].state = "authenticated"
  /\ 1 \notin sockets[3].joined
  /\ sockets[1].inbox = <<>>
  /\ sockets[2].inbox = <<Typing("user_typing", "u1", 1)>>
  /\ sockets[3].inbox = <<>>

\* ---------------------------------------------------------- first contact
\* C13: the socket send that finds no conversation between sender and an
\* existing receiver creates one, and when its last store call completes
\* that conversation has exactly the two participants, the sender with
\* unreadCount 0 and the receiver with unreadCount 1, and lastMessage is the
\* one Message the send persisted (unread, from sender to receiver); the
\* sender's socket gets message_sent and the receiver's personal room gets
\* message_notification although no socket has joined the conversation room.
C13_FirstContactCreates ==
  [][\A i \in DOMAIN tasks :
       (/\ StepSaveConversation(i)
        /\ tasks[i].kind = "socketSend" /\ tasks[i].created # 0) =>
         LET t == tasks[i]
             c == conversations'[t.created]
         IN /\ t.conv = t.created
            /\ Len(c.participants) = 2
            /\ c.participants[1].user = t.userId
            /\ c.participants[1].userModel = ModelOf(t.userRole)
            /\ c.participants[1].unreadCount = 0
            /\ c.participants[2].user = t.receiverId
            /\ c.participants[2].userModel = t.receiverModel
            /\ c.participants[2].unreadCount = 1
            /\ c.lastMessage = t.msg
            /\ t.msg \in DOMAIN messages
            /\ messages[t.msg].sender = t.userId
            /\ messages[t.msg].receiver = t.receiverId
            /\ ~messages[t.msg].isRead
            /\ \E n \in DOMAIN tasks'[i].emitted :
                 tasks'[i].emitted[n] = ToSocket("message_sent", t.conn, t.msg)
            /\ \E n \in DOMAIN tasks'[i].emitted :
                 tasks'[i].emitted[n] =
                   ToUser("message_notification", t.receiverId, t.msg)
            /\ \A d \in DOMAIN sockets : t.created \notin sockets[d].joined]_vars

C13_Witness ==
  \E i \in DOMAIN tasks :
    /\ tasks[i].kind = "socketSend" /\ tasks[i].outcome = "ok"
    /\ tasks[i].created = 1 /\ Len(conversations) = 1 /\ Len(messages) = 1
    /\ conversations[1].participants[1].unreadCount = 0
    /\ conversations[1].participants[2].unreadCount = 1
    /\ conversations[1].lastMessage = tasks[i].msg
    /\ Len(tasks[i].emitted) = 3

\* ------------------------------------------------------------- pairing
\* the (participant, variant) tuples a send is between
SendPair(t) ==
  {<<t.userId, ModelOf(t.userRole)>>, <<t.receiverId, t.receiverModel>>}

\* C14: after sends that take turns (each one completing before the next
\* begins, in either direction), exactly one Conversation exists between the
\* two participants of every successful send, and a successful send that
\* follows another one of the same pair has created nothing and used the
\* same conversation.
C14_TurnsShareOneConversation ==
  Idle =>
    \A j \in DOMAIN tasks :
      LET t == tasks[j] IN
      (IsSend(t) /\ t.outcome = "ok" /\ t.userId # t.receiverId) =>
        /\ Cardinality({k \in DOMAIN conversations :
                          PairOf(conversations[k]) = SendPair(t)}) = 1
        /\ PairOf(conversations[t.conv]) = SendPair(t)
        /\ \A i \in DOMAIN tasks :
             (/\ i < j /\ IsSend(tasks[i]) /\ tasks[i].outcome = "ok"
              /\ SendPair(tasks[i]) = SendPair(t)) =>
               t.created = 0 /\ t.conv = tasks[i].conv

C14_Witness ==
  /\ Idle /\ Len(tasks) = 2 /\ Len(conversations) = 1
  /\ tasks[1].outcome = "ok" /\ tasks[2].outcome = "ok"
  /\ tasks[1].created = 1 /\ tasks[2].created = 0 /\ tasks[2].conv = 1
  /\ tasks[1].userId = tasks[2].receiverId
  /\ tasks[2].userId = tasks[1].receiverId
  /\ tasks[1].userId # tasks[1].receiverId

\* the (participant, variant) arguments a lookup can be given
LookupArgs == AllIds \X {"User", "Admin", "Other"}

\* C15: in every store state, findBetweenUsers(A, B) and
\* findBetweenUsers(B, A) return the same conversation, or both none, for
\* all (participant, variant) pairs A and B.
C15_LookupSymmetric ==
  \A a, b \in LookupArgs :
    findBetweenUsers(conversations, a[1], a[2], b[1], b[2]) =
      findBetweenUsers(conversations, b[1], b[2], a[1], a[2])

C15_Witness ==
  /\ Len(conversations) >= 2
  /\ findBetweenUsers(conversations, "u2", "User", "u1", "User") = 1
  /\ findBetweenUsers(conversations, "u1", "User", "a1", "Admin") = 2
  /\ findBetweenUsers(conversations, "a1", "Admin", "u2", "User") = 0

\* ------------------------------------------------------------- history
IsFetch(t) == t.kind = "getMessages"

\* the requester of a history fetch is a participant of the conversation
FetcherIsParticipant(t) ==
  /\ t.conversationId \in DOMAIN conversations
  /\ t.userId \in {conversations[t.conversationId].participants[p].user :
                     p \in DOMAIN conversations[t.conversationId].participants}

\* message m is exchanged between participants of conversation k
InConversation(m, k) ==
  {messages[m].sender, messages[m].receiver} \subseteq
    {conversations[k].participants[p].user :
       p \in DOMAIN conversations[k].participants}

\* C17: in a history fetch by participant P, the updateMany step marks read
\* (with the fetch's readAt) every unread message of the conversation
\* addressed to P and changes no other message, in particular none addressed
\* to the other participant; the updateOne step sets P's unreadCount to 0 and
\* changes nothing else of any conversation; a fetch by a non-participant
\* ends in an error at its first step and no step of it changes a message
\* or a conversation.
C17_FetchMarksAndResets ==
  [][\A i \in DOMAIN tasks :
       LET t == tasks[i]
           k == t.conversationId
       IN IsFetch(t) =>
            /\ StepMarkFetched(i) =>
                 /\ FetcherIsParticipant(t)
                 /\ conversations' = conversations
                 /\ \A m \in DOMAIN messages :
                      IF /\ messages[m].receiver = t.userId
                         /\ InConversation(m, k) /\ ~messages[m].isRead
                      THEN messages'[m] = [messages[m] EXCEPT !.isRead = TRUE,
                                                             !.readAt = t.at]
                      ELSE messages'[m] = messages[m]
            /\ StepResetFetched(i) =>
                 /\ FetcherIsParticipant(t)
                 /\ messages' = messages
                 /\ DOMAIN conversations' = DOMAIN conversations
                 /\ \A j \in DOMAIN conversations :
                      j # k => conversations'[j] = conversations[j]
                 /\ conversations'[k].lastMessage = conversations[k].lastMessage
                 /\ conversations'[k].lastActivity = conversations[k].lastActivity
                 /\ \A p \in DOMAIN conversations[k].participants :
                      IF conversations[k].participants[p].user = t.userId
                      THEN conversations'[k].participants[p].unreadCount = 0
                      ELSE conversations'[k].participants[p] =
                             conversations[k].participants[p]
            /\ (tasks'[i] # t /\ ~FetcherIsParticipant(t)) =>
                 /\ tasks'[i].pc = "done" /\ tasks'[i].outcome = "error"
                 /\ messages' = messages /\ conversations' = conversations]_vars

C17_Witness ==
  /\ \E i \in DOMAIN tasks :
       /\ IsFetch(tasks[i]) /\ tasks[i].userId = "u1" /\ tasks[i].outcome = "ok"
       /\ Cardinality(tasks[i].moved) >= 2
  /\ \E i \in DOMAIN tasks :
       /\ IsFetch(tasks[i]) /\ tasks[i].userId = "a1"
       /\ tasks[i].outcome = "error" /\ tasks[i].conv = 0
  /\ Len(conversations) = 1
  /\ \A m \in DOMAIN messages : messages[m].isRead
  /\ conversations[1].participants[2].unreadCount = 0

\* C18: the messages_read event of a completed mark_messages_read carries
\* exactly the ids the call moved from unread to read, not ids that were
\* already read, addressed to someone else or nonexistent.
C18_ReadEventCarriesTransitioned ==
  \A i \in DOMAIN tasks :
    LET t == tasks[i] IN
    (IsMarkRead(t) /\ t.outcome = "ok") =>
      \E n \in DOMAIN t.emitted :
        /\ t.emitted[n].ev = "messages_read"
        /\ t.emitted[n].ids = t.moved

\* C19: read state is monotonic: no step removes a message, and a message
\* that is read keeps isRead and its readAt (and every other field) through
\* every later send, mark_messages_read and history fetch.
C19_ReadStateMonotonic ==
  [][\A m \in DOMAIN messages :
       /\ m \in DOMAIN messages'
       /\ messages[m].isRead => messages'[m] = messages[m]]_vars

C19_Witness ==
  /\ Len(messages) >= 1 /\ messages[1].isRead
  /\ \E i, j \in DOMAIN tasks :
       /\ 1 \in tasks[i].moved
       /\ messages[1].readAt = tasks[i].at
       /\ IsMarkRead(tasks[j]) /\ tasks[j].outcome = "ok"
       /\ 1 \in tasks[j].messageIds /\ tasks[j].userId = "u1"
       /\ tasks[j].at > tasks[i].at
       /\ 1 \notin tasks[j].moved

\* C20: the persisted lastActivity of a conversation never decreases, in
\* any step of any interleaving of sends into it.
C20_LastActivityMonotonic ==
  [][\A k \in DOMAIN conversations :
       /\ k \in DOMAIN conversations'
       /\ conversations'[k].lastActivity >= conversations[k].lastActivity]_vars

\* ------------------------------------------------------- last message
\* the messages the sends into conversation k have persisted
MessagesOf(k) ==
  {tasks[i].msg : i \in {j \in DOMAIN tasks : /\ IsSend(tasks[j])
                                              /\ tasks[j].conv = k
                                              /\ tasks[j].msg # 0}}

\* C21: whenever no send is in flight (and every send has succeeded), the
\* lastMessage of a conversation is the most recently created Message of
\* that conversation, or absent if it has none, whatever the interleaving
\* of the sends was.
C21_LastMessageIsNewest ==
  (Idle /\ \A i \in DOMAIN tasks : tasks[i].outcome = "ok") =>
    \A k \in DOMAIN conversations :
      conversations[k].lastMessage =
        IF MessagesOf(k) = {} THEN 0
        ELSE CHOOSE m \in MessagesOf(k) : \A n \in MessagesOf(k) : n <= m

\* ----------------------------------------------------- sender identity
\* C22: every Message a socket send has persisted has the sender and
\* sender variant of the identity its connection authenticated with,
\* whatever the payload names, and two sends from connections of different
\* participants have persisted different senders.
C22_SenderIsConnectionIdentity ==
  \A i \in DOMAIN tasks :
    LET t == tasks[i] IN
    (t.kind = "socketSend" /\ t.msg # 0) =>
      /\ messages[t.msg].sender = Token(t.conn).id
      /\ messages[t.msg].senderModel = ModelOf(Token(t.conn).role)
      /\ \A j \in DOMAIN tasks :
           (/\ tasks[j].kind = "socketSend" /\ tasks[j].msg # 0
            /\ Token(tasks[j].conn).id # Token(t.conn).id) =>
             <<messages[tasks[j].msg].sender, messages[tasks[j].msg].senderModel>>
               # <<messages[t.msg].sender, messages[t.msg].senderModel>>

C22_Witness ==
  /\ Len(tasks) = 2 /\ Len(messages) = 2
  /\ tasks[1].conn = 1 /\ tasks[2].conn = 2
  /\ tasks[1].receiverId = tasks[2].receiverId
  /\ tasks[1].msg # 0 /\ tasks[2].msg # 0
  /\ messages[tasks[1].msg].sender = "u1"
  /\ messages[tasks[2].msg].sender = "a1"
  /\ messages[tasks[2].msg].senderModel = "Admin"

\* C23: every Conversation in the store has exactly 2 participant entries
\* that refer to two distinct participants, each with a non-negative
\* unreadCount, also when a participant writes to itself.
C23_TwoDistinctParticipants ==
  \A k \in DOMAIN conversations :
    /\ Len(conversations[k].participants) = 2
    /\ conversations[k].participants[1].user #
         conversations[k].participants[2].user
    /\ \A p \in DOMAIN conversations[k].participants :
         conversations[k].participants[p].unreadCount \in Nat

\* C25: a send that has found or created its conversation holds one whose
\* participant set is exactly its own (sender, variant), (receiver,
\* variant) pair, so its unread increment and lastMessage never go to a
\* conversation of a different pair.
C25_LookupReturnsExactPair ==
  \A i \in DOMAIN tasks :
    LET t == tasks[i] IN
    (IsSend(t) /\ t.conv # 0) => PairOf(conversations[t.conv]) = SendPair(t)

\* C26: in every state the presence maps reflect the live connections: a
\* participant is online exactly when one of its connections is
\* authenticated and not disconnected, and every connection entry has an
\* entry of its participant in the other map, also when a participant
\* connects twice and the older connection disconnects.
C26_PresenceReflectsConnections ==
  /\ \A id \in DOMAIN connectedUsers :
       isUserOnline(connectedUsers, id) <=>
         \E c \in DOMAIN sockets : /\ sockets[c].state = "authenticated"
                                    /\ sockets[c].userId = id
  /\ \A c \in DOMAIN userSockets :
       userSockets[c] # "" => isUserOnline(connectedUsers, userSockets[c])

\* connection c has no entry in either presence map
AbsentConnection(c) ==
  /\ userSockets[c] = ""
  /\ \A id \in DOMAIN connectedUsers : connectedUsers[id] # c

UnreadFor(k, p) ==
  {m \in DOMAIN messages :
     /\ ~messages[m].isRead
     /\ messages[m].receiver = conversations[k].participants[p].user
     /\ \E q \in DOMAIN conversations[k].participants :
          /\ q # p
          /\ messages[m].sender = conversations[k].participants[q].user}

\* C27: whenever no operation is in flight, no participant's unreadCount
\* on a conversation exceeds the number of unread messages the other
\* participant has addressed to it, also after a send has interleaved with
\* a mark_messages_read or a history fetch of the receiver.
C27_UnreadCountBounded ==
  Idle =>
    \A k \in DOMAIN conversations :
      \A p \in DOMAIN conversations[k].participants :
        conversations[k].participants[p].unreadCount <=
          Cardinality(UnreadFor(k, p))

\* --------------------------------------------------- REST and socket send
\* the durable content of a conversation and of a message, timestamps aside
ConversationView(c) ==
  [participants |-> [p \in DOMAIN c.participants |->
                       [user |-> c.participants[p].user,
                        userModel |-> c.participants[p].userModel,
                        unreadCount |-> c.participants[p].unreadCount]],
   lastMessage |-> c.lastMessage]
MessageView(m) ==
  [sender |-> m.sender, senderModel |-> m.senderModel, receiver |-> m.receiver,
   receiverModel |-> m.receiverModel, isRead |-> m.isRead]

\* a send of u1 to r on the store of n earlier messages from u2 to u1 is to
\* succeed
SendSucceeds(r) ==
  ReceiverExists([receiverId |-> r.id, receiverModel |-> r.model])

\* the conversations and messages a send of u1 to r must leave on that
\* store: nothing new for a receiver that does not exist; otherwise one new
\* unread message, and the conversation of the pair (created if there was
\* none) with lastMessage on it and the receiver's unreadCount one higher
ExpectedConversations(n, r) ==
  LET seed == [k \in DOMAIN SeedConversations(n) |->
                 ConversationView(SeedConversations(n)[k])]
  IN IF ~SendSucceeds(r) THEN seed
     ELSE IF n > 0 /\ r.id = "u2"
     THEN [seed EXCEPT ![1].lastMessage = n + 1,
                       ![1].participants[1].unreadCount = @ + 1]
     ELSE Append(seed,
            [participants |->
               <<[user |-> "u1", userModel |-> "User", unreadCount |-> 0],
                 [user |-> r.id, userModel |-> r.model, unreadCount |-> 1]>>,
             lastMessage |-> n + 1])
ExpectedMessages(n, r) ==
  LET seed == [m \in DOMAIN SeedMessages(n) |-> MessageView(SeedMessages(n)[m])]
  IN IF ~SendSucceeds(r) THEN seed
     ELSE Append(seed, [sender |-> "u1", senderModel |-> "User",
                        receiver |-> r.id, receiverModel |-> r.model,
                        isRead |-> FALSE])

\* C28: a send that ran on its own, over the socket or over POST
\* /messages, leaves the durable state that its sender, receiver and the
\* store it started from determine, the same for both paths: the same
\* conversation (created or reused, lastMessage, lastActivity moved past
\* the message, receiver's unreadCount + 1) and the same Message, and
\* nothing for a receiver that does not exist; the REST path has emitted no
\* event, the socket path its three events or message_error.
C28_RestEqualsSocket ==
  (Len(tasks) = 1 /\ tasks[1].pc = "done") =>
    LET t == tasks[1]
        n == Len(messages) - (IF t.msg # 0 THEN 1 ELSE 0)
        r == [id |-> t.receiverId, model |-> t.receiverModel]
    IN /\ [k \in DOMAIN conversations |-> ConversationView(conversations[k])]
            = ExpectedConversations(n, r)
       /\ [m \in DOMAIN messages |-> MessageView(messages[m])]
            = ExpectedMessages(n, r)
       /\ (t.outcome = "ok") = SendSucceeds(r)
       /\ t.outcome = "ok" =>
            conversations[t.conv].lastActivity > messages[t.msg].createdAt
       /\ t.kind = "restSend" => t.emitted = <<>>
       /\ t.kind = "socketSend" =>
            EventNames(t) = IF t.outcome = "ok"
                            THEN <<"new_message", "message_notification",
                                   "message_sent">>
                            ELSE <<"message_error">>

C28_Witness ==
  /\ Len(tasks) = 1 /\ tasks[1].kind = "restSend" /\ tasks[1].outcome = "ok"
  /\ tasks[1].receiverId = "a1" /\ tasks[1].created = 2
  /\ Len(messages) = MaxSeed + 1 /\ tasks[1].emitted = <<>>
  /\ conversations[2].participants[2].unreadCount = 1

\* ------------------------------------------------- every send is answered
\* the acknowledgments a send has emitted to its own socket
Answers(t) ==
  {j \in DOMAIN t.emitted :
     /\ t.emitted[j].ev \in {"message_sent", "message_error"}
     /\ t.emitted[j].room = "socket"
     /\ t.emitted[j].socket = t.conn}

\* C29: when every store call of a send returns, the send_message ends with
\* exactly one of message_sent / message_error emitted to its own socket:
\* at no time more than one, and from some point on every such send has
\* ended with its one answer (a handler never leaves "done"); sends of
\* socket 1 whose store calls never return keep nobody else from getting
\* there.
C29_EverySendAnswered ==
  /\ [](\A i \in DOMAIN tasks :
          /\ Cardinality(Answers(tasks[i])) <= 1
          /\ tasks[i].pc = "done" => Cardinality(Answers(tasks[i])) = 1)
  /\ <>[](\A i \in DOMAIN tasks :
            ~MayStall(tasks[i]) =>
              /\ tasks[i].pc = "done"
              /\ Cardinality(Answers(tasks[i])) = 1)

C29_Witness ==
  /\ Len(tasks) = 2
  /\ MayStall(tasks[1]) /\ tasks[1].pc = "findReceiver"
  /\ tasks[2].conn = 2 /\ tasks[2].pc = "done" /\ tasks[2].outcome = "ok"
  /\ \E j \in Answers(tasks[2]) : tasks[2].emitted[j].ev = "message_sent"

\* ------------------------------------------------------------ history pages
\* ranks (p - 1) * L + 1 .. p * L of the conversation's messages, newest
\* first, handed out oldest first
PageSlice(k, who, p, L) ==
  LET all == SortNewestFirst(messages,
               History(conversations, messages, k, who.id, ModelOf(who.role)))
  IN Reverse(Limit(Skip(all, (p - 1) * L), L))

Answered(t) == t.kind = "getMessages" /\ t.pc = "done" /\ t.outcome = "ok"

\* C30: with nothing sent, the page p a fetch with limit L returns is the
\* slice of ranks (p - 1) * L + 1 .. p * L of the conversation's messages,
\* oldest first: at most L messages, in ascending createdAt order, and two
\* different pages of the same limit share no message.
C30_PagesAreDisjointSlices ==
  /\ \A i \in DOMAIN tasks :
       Answered(tasks[i]) =>
         LET t == tasks[i]
         IN /\ Len(t.listed) <= t.limit
            /\ \A a, b \in DOMAIN t.listed :
                 a < b => messages[t.listed[a]].createdAt
                            < messages[t.listed[b]].createdAt
            /\ t.listed = PageSlice(t.conversationId,
                                    [id |-> t.userId, role |-> t.userRole],
                                    t.page, t.limit)
  /\ \A i, j \in DOMAIN tasks :
       (/\ Answered(tasks[i]) /\ Answered(tasks[j])
        /\ tasks[i].limit = tasks[j].limit /\ tasks[i].page # tasks[j].page)
         => {tasks[i].listed[a] : a \in DOMAIN tasks[i].listed}
              \cap {tasks[j].listed[a] : a \in DOMAIN tasks[j].listed} = {}

====
